---- MODULE Spec2Model ----
(***************************************************************************)
(* A model of the daaskobot repository: the file-presence script           *)
(* (check_files.sh), the relational schema (db/schema.sql) under the       *)
(* statements a client can issue against it, and the mini-app's code that  *)
(* talks to the Telegram web-view bridge (App.jsx, SubscriptionsPlans.jsx, *)
(* utils/telegram.js).                                                     *)
(***************************************************************************)
EXTENDS Integers, Sequences, FiniteSets, TLC

VARIABLES
  \* ---- check_files.sh
  fs,        \* the required paths that exist as regular files in the cwd
  pc,        \* position of the script: "idle" | "scan" | "report" | "exited"
  idx,       \* index of the loop `for f in "${required[@]}"`
  missing,   \* the bash array `missing`
  out,       \* lines written to stdout
  status,    \* exit status; -1 while the script has not exited
  \* ---- db/schema.sql: one set of rows per table, and the outcome of the
  \* last statement
  tenants, users, chats, invite_links, join_events, subscriptions, payments,
  outcome,
  \* ---- the mini-app
  botUsername, \* import.meta.env.VITE_BOT_USERNAME
  win,         \* window.Telegram, as the host (or a late script) provides it
  appPc,       \* App: position of the component and of its mount effect
  tgw,         \* App: the effect's local `tgw`
  tg,          \* App: the state of useState(null)
  ret,         \* what the last call of initTelegramWebApp returned
  lastOp,      \* the handler that ran last, with its argument
  calls,       \* every call made to the host so far, in order
  ops          \* number of handlers run so far

filesVars == <<fs, pc, idx, missing, out, status>>

tables == <<tenants, users, chats, invite_links, join_events,
            subscriptions, payments>>

dbVars == <<tables, outcome>>

uiVars == <<botUsername, win, appPc, tgw, tg, ret, lastOp, calls, ops>>

vars == <<filesVars, dbVars, uiVars>>

(***************************************************************************)
(* check_files.sh                                                          *)
(***************************************************************************)

\* src/check_files.sh:3-20, the array `required`.
required ==
  << "backend/requirements.txt",
     "backend/app/main.py",
     "backend/app/bot_worker.py",
     "backend/app/services/db.py",
     "backend/app/handlers/start.py",
     "backend/app/models.py",
     "backend/app/services/payments.py",
     "db/schema.sql",
     "frontend-miniapp/package.json",
     "frontend-miniapp/index.html",
     "frontend-miniapp/vite.config.js",
     "frontend-miniapp/src/main.jsx",
     "frontend-miniapp/src/App.jsx",
     "frontend-miniapp/src/utils/telegram.js",
     ".gitignore",
     "backend/.env" >>

RequiredSet == { required[i] : i \in 1..Len(required) }

\* The two header lines (the leading check/cross glyphs of the script's
\* messages are not part of the model's strings).
MsgAllPresent == "All expected files are present."
MsgMissing == "Missing files:"

ExitOk == 0
ExitMissing == 2

IsMissingNegated(f, files) == f \in files
\* `[[ ! -f "$f" ]]`
IsMissing(f, files) == f \notin files

\* `echo " - $m"`
MissingLine(m) == " - " \o m

InitFilesIdle ==
  /\ fs = {}
  /\ pc = "idle"
  /\ idx = 1
  /\ missing = << >>
  /\ out = << >>
  /\ status = -1

\* The script starts in a directory holding any subset of the required files.
InitFiles ==
  /\ fs \in SUBSET RequiredSet
  /\ pc = "scan"
  /\ idx = 1
  /\ missing = << >>
  /\ out = << >>
  /\ status = -1

\* One iteration of the for loop (lines 23-27).
ScanStep ==
  /\ pc = "scan"
  /\ idx <= Len(required)
  /\ missing' = IF IsMissing(required[idx], fs)
                  THEN Append(missing, required[idx])
                  ELSE missing
  /\ idx' = idx + 1
  /\ UNCHANGED <<fs, pc, out, status>>
  /\ UNCHANGED <<dbVars, uiVars>>

\* The loop is over.
ScanDone ==
  /\ pc = "scan"
  /\ idx > Len(required)
  /\ pc' = "report"
  /\ UNCHANGED <<fs, idx, missing, out, status>>
  /\ UNCHANGED <<dbVars, uiVars>>

\* Lines 29-36.
Report ==
  /\ pc = "report"
  /\ IF Len(missing) = 0
       THEN /\ out' = Append(out, MsgAllPresent)
            /\ status' = ExitOk
       ELSE /\ out' = (Append(out, MsgMissing))
                        \o [k \in 1..Len(missing) |-> MissingLine(missing[k])]
            /\ status' = ExitMissing
  /\ pc' = "exited"
  /\ UNCHANGED <<fs, idx, missing>>
  /\ UNCHANGED <<dbVars, uiVars>>

NextFiles == ScanStep \/ ScanDone \/ Report



(***************************************************************************)
(* db/schema.sql                                                           *)
(*                                                                         *)
(* A row is a record of its key and its foreign-key and unique columns;    *)
(* the columns no constraint reads (names, titles, amounts, timestamps)    *)
(* are left out.  Row ids stand for the uuids of gen_random_uuid(); NULL   *)
(* is the SQL null of a nullable reference.                                *)
(***************************************************************************)

MaxTenants == 2   \* tenant ids in use
MaxRows == 3      \* rows over all the tables other than tenants

NULL == 0
TenantIds == 1..MaxTenants
RowIds == 1..MaxRows
\* The Telegram ids (bigint) statements are issued with.
TgIds == {1001, 1002}

\* Outcome of the last statement: success, or the error raised.  A foreign
\* key is violated by a row that arrives ("insert or update on table ...
\* violates foreign key constraint") or by a row that leaves ("update or
\* delete on table ... violates foreign key constraint").
Success == "ok"
UniqueViolation == "unique_violation"
FkInsertViolation == "foreign_key_violation: insert or update"
FkDeleteViolation == "foreign_key_violation: update or delete"

Ids(rows) == { r.id : r \in rows }

RowCount ==
  Cardinality(users) + Cardinality(chats) + Cardinality(invite_links)
    + Cardinality(join_events) + Cardinality(subscriptions)
    + Cardinality(payments)

\* DEFAULT gen_random_uuid(): an id no row of the table has.
FreshId(rows) ==
  CHOOSE i \in RowIds :
    /\ i \notin Ids(rows)
    /\ \A j \in RowIds : j < i => j \in Ids(rows)

\* `REFERENCES t(id)` on a nullable column: null, or the id of a row of t.
FkOk(v, ids) == v = NULL \/ v \in ids

\* UNIQUE (tenant_id, tg_user_id): nulls are distinct, so a row with a null
\* tenant_id conflicts with no row.
UsersUniqueOkGlobal(rows, t, g) == ~ \E r \in rows : r.tg_user_id = g
UsersUniqueOk(rows, t, g) ==
  ~ \E r \in rows : t # NULL /\ r.tenant_id = t /\ r.tg_user_id = g

\* UNIQUE (tenant_id, tg_chat_id)
ChatsUniqueOk(rows, t, g) ==
  ~ \E r \in rows : t # NULL /\ r.tenant_id = t /\ r.tg_chat_id = g

InitDB ==
  /\ tenants = {}
  /\ users = {}
  /\ chats = {}
  /\ invite_links = {}
  /\ join_events = {}
  /\ subscriptions = {}
  /\ payments = {}
  /\ outcome = Success

\* A statement that raises: nothing changes but the outcome.
Reject(code) ==
  /\ outcome' = code
  /\ UNCHANGED tables

\* INSERT INTO tenants
InsertTenants(t) ==
  /\ t \notin tenants
  /\ tenants' = tenants \cup {t}
  /\ outcome' = Success
  /\ UNCHANGED <<users, chats, invite_links, join_events, subscriptions, payments>>
  /\ UNCHANGED <<filesVars, uiVars>>

\* INSERT INTO users (tenant_id, tg_user_id)
InsertUsers(t, g) ==
  /\ IF ~ UsersUniqueOk(users, t, g) THEN Reject(UniqueViolation)
     ELSE IF ~ FkOk(t, tenants) THEN Reject(FkInsertViolation)
     ELSE /\ RowCount < MaxRows
          /\ users' = users \cup
                {[id |-> FreshId(users), tenant_id |-> t, tg_user_id |-> g]}
          /\ outcome' = Success
          /\ UNCHANGED <<tenants, chats, invite_links, join_events,
                         subscriptions, payments>>
  /\ UNCHANGED <<filesVars, uiVars>>

\* INSERT INTO chats (tenant_id, tg_chat_id)
InsertChats(t, g) ==
  /\ IF ~ ChatsUniqueOk(chats, t, g) THEN Reject(UniqueViolation)
     ELSE IF ~ FkOk(t, tenants) THEN Reject(FkInsertViolation)
     ELSE /\ RowCount < MaxRows
          /\ chats' = chats \cup
                {[id |-> FreshId(chats), tenant_id |-> t, tg_chat_id |-> g]}
          /\ outcome' = Success
          /\ UNCHANGED <<tenants, users, invite_links, join_events,
                         subscriptions, payments>>
  /\ UNCHANGED <<filesVars, uiVars>>

\* INSERT INTO invite_links (tenant_id, chat_id)
InsertInviteLinks(t, c) ==
  /\ IF ~ (FkOk(t, tenants) /\ FkOk(c, Ids(chats)))
       THEN Reject(FkInsertViolation)
       ELSE /\ RowCount < MaxRows
            /\ invite_links' = invite_links \cup
                  {[id |-> FreshId(invite_links), tenant_id |-> t, chat_id |-> c]}
            /\ outcome' = Success
            /\ UNCHANGED <<tenants, users, chats, join_events,
                           subscriptions, payments>>
  /\ UNCHANGED <<filesVars, uiVars>>

\* INSERT INTO join_events (tenant_id, chat_id, invite_link_id)
InsertJoinEvents(t, c, l) ==
  /\ IF ~ (FkOk(t, tenants) /\ FkOk(c, Ids(chats)) /\ FkOk(l, Ids(invite_links)))
       THEN Reject(FkInsertViolation)
       ELSE /\ RowCount < MaxRows
            /\ join_events' = join_events \cup
                  {[id |-> FreshId(join_events), tenant_id |-> t, chat_id |-> c,
                    invite_link_id |-> l]}
            /\ outcome' = Success
            /\ UNCHANGED <<tenants, users, chats, invite_links,
                           subscriptions, payments>>
  /\ UNCHANGED <<filesVars, uiVars>>

\* INSERT INTO subscriptions (tenant_id)
InsertSubscriptions(t) ==
  /\ IF ~ FkOk(t, tenants) THEN Reject(FkInsertViolation)
     ELSE /\ RowCount < MaxRows
          /\ subscriptions' = subscriptions \cup
                {[id |-> FreshId(subscriptions), tenant_id |-> t]}
          /\ outcome' = Success
          /\ UNCHANGED <<tenants, users, chats, invite_links, join_events,
                         payments>>
  /\ UNCHANGED <<filesVars, uiVars>>

\* INSERT INTO payments (tenant_id)
InsertPayments(t) ==
  /\ IF ~ FkOk(t, tenants) THEN Reject(FkInsertViolation)
     ELSE /\ RowCount < MaxRows
          /\ payments' = payments \cup
                {[id |-> FreshId(payments), tenant_id |-> t]}
          /\ outcome' = Success
          /\ UNCHANGED <<tenants, users, chats, invite_links, join_events,
                         subscriptions>>
  /\ UNCHANGED <<filesVars, uiVars>>

\* The rows the ON DELETE CASCADE references remove, given the deleted
\* tenants dT and the deleted chats dC.
CascadeUsers(dT) == { r \in users : r.tenant_id \in dT }
CascadeChats(dT) == { r \in chats : r.tenant_id \in dT }
CascadeInviteLinks(dT, dC) ==
  { r \in invite_links : r.tenant_id \in dT \/ r.chat_id \in Ids(dC) }
CascadeJoinEvents(dT, dC) ==
  { r \in join_events : r.tenant_id \in dT \/ r.chat_id \in Ids(dC) }
CascadeSubscriptions(dT) == { r \in subscriptions : r.tenant_id \in dT }
CascadePayments(dT) == { r \in payments : r.tenant_id \in dT }

\* join_events.invite_link_id REFERENCES invite_links(id), with no ON DELETE
\* action (NO ACTION): checked once the statement and its cascades are done,
\* it raises when a join_events row that is left references a deleted link.
NoActionIgnored(dL, left) == FALSE
NoActionViolated(dL, left) == \E j \in left : j.invite_link_id \in Ids(dL)

\* A DELETE of the tenants dT, the chats dC0, the invite links dL0 and the
\* join events dJ0, with everything it cascades to.
Delete(dT, dC0, dL0, dJ0) ==
  LET dC == dC0 \cup CascadeChats(dT)
      dL == dL0 \cup CascadeInviteLinks(dT, dC)
      dJ == dJ0 \cup CascadeJoinEvents(dT, dC)
  IN  IF NoActionViolated(dL, join_events \ dJ)
        THEN Reject(FkDeleteViolation)
        ELSE /\ tenants' = tenants \ dT
             /\ users' = users \ CascadeUsers(dT)
             /\ chats' = chats \ dC
             /\ invite_links' = invite_links \ dL
             /\ join_events' = join_events \ dJ
             /\ subscriptions' = subscriptions \ CascadeSubscriptions(dT)
             /\ payments' = payments \ CascadePayments(dT)
             /\ outcome' = Success

\* DELETE FROM tenants WHERE id = t
DeleteTenants(t) ==
  /\ t \in tenants
  /\ Delete({t}, {}, {}, {})
  /\ UNCHANGED <<filesVars, uiVars>>

\* DELETE FROM users WHERE id = u.id
DeleteUsers(u) ==
  /\ u \in users
  /\ users' = users \ {u}
  /\ outcome' = Success
  /\ UNCHANGED <<tenants, chats, invite_links, join_events, subscriptions, payments>>
  /\ UNCHANGED <<filesVars, uiVars>>

\* DELETE FROM chats WHERE id = c.id
DeleteChats(c) ==
  /\ c \in chats
  /\ Delete({}, {c}, {}, {})
  /\ UNCHANGED <<filesVars, uiVars>>

\* DELETE FROM invite_links WHERE id = l.id
DeleteInviteLinks(l) ==
  /\ l \in invite_links
  /\ Delete({}, {}, {l}, {})
  /\ UNCHANGED <<filesVars, uiVars>>

\* DELETE FROM join_events WHERE id = j.id
DeleteJoinEvents(j) ==
  /\ j \in join_events
  /\ Delete({}, {}, {}, {j})
  /\ UNCHANGED <<filesVars, uiVars>>

\* DELETE FROM subscriptions WHERE id = s.id
DeleteSubscriptions(s) ==
  /\ s \in subscriptions
  /\ subscriptions' = subscriptions \ {s}
  /\ outcome' = Success
  /\ UNCHANGED <<tenants, users, chats, invite_links, join_events, payments>>
  /\ UNCHANGED <<filesVars, uiVars>>

\* DELETE FROM payments WHERE id = p.id
DeletePayments(p) ==
  /\ p \in payments
  /\ payments' = payments \ {p}
  /\ outcome' = Success
  /\ UNCHANGED <<tenants, users, chats, invite_links, join_events, subscriptions>>
  /\ UNCHANGED <<filesVars, uiVars>>

RefIds == RowIds \cup {NULL}
TenantRefs == TenantIds \cup {NULL}

TenantStatements ==
  \/ \E t \in TenantIds : InsertTenants(t)
  \/ \E t \in tenants : DeleteTenants(t)

UserStatements ==
  \/ \E t \in TenantRefs, g \in TgIds : InsertUsers(t, g)
  \/ \E u \in users : DeleteUsers(u)

ChatStatements ==
  \/ \E t \in TenantRefs, g \in TgIds : InsertChats(t, g)
  \/ \E c \in chats : DeleteChats(c)

InviteLinkStatements ==
  \/ \E t \in TenantRefs, c \in RefIds : InsertInviteLinks(t, c)
  \/ \E l \in invite_links : DeleteInviteLinks(l)

JoinEventStatements ==
  \/ \E t \in TenantRefs, c \in RefIds, l \in RefIds : InsertJoinEvents(t, c, l)
  \/ \E j \in join_events : DeleteJoinEvents(j)

BillingStatements ==
  \/ \E t \in TenantRefs : InsertSubscriptions(t)
  \/ \E t \in TenantRefs : InsertPayments(t)
  \/ \E r \in subscriptions : DeleteSubscriptions(r)
  \/ \E r \in payments : DeletePayments(r)

\* Statements on every table.
NextDB ==
  \/ TenantStatements
  \/ UserStatements
  \/ ChatStatements
  \/ InviteLinkStatements
  \/ JoinEventStatements
  \/ BillingStatements

\* Statements on the tables that carry a unique constraint, and on tenants.
NextUnique ==
  \/ TenantStatements
  \/ UserStatements
  \/ ChatStatements

\* Statements on the tables of the reference chain
\* tenants <- chats <- invite_links <- join_events.
NextRefs ==
  \/ TenantStatements
  \/ ChatStatements
  \/ InviteLinkStatements
  \/ JoinEventStatements

(***************************************************************************)
(* The mini-app: App.jsx, components/SubscriptionsPlans.jsx and            *)
(* utils/telegram.js, against the host's window.Telegram.                  *)
(*                                                                         *)
(* JavaScript values are tagged: Undefined and Null are the two empty      *)
(* values, WebApp is the bridge object window.Telegram.WebApp.  A call to  *)
(* the host is logged as [by, input, fn, arg]: the handler that made it,   *)
(* that handler's argument, the function called and its argument.          *)
(***************************************************************************)

MaxOps == 2       \* handlers run in a session, the mount aside

Undefined == "undefined"
Null == "null"
WebApp == "WebApp"

\* VITE_BOT_USERNAME as the build provides it: unset, empty, or a name.
BotUsernames ==
  { [set |-> FALSE, val |-> ""],
    [set |-> TRUE, val |-> ""],
    [set |-> TRUE, val |-> "daaskobot"],
    [set |-> TRUE, val |-> "daasko_test_bot"] }

\* window.Telegram: absent; present with no WebApp; present with a WebApp
\* whose expand() may throw and which may offer openTelegramLink.
NoTelegram ==
  [telegram |-> FALSE, webapp |-> FALSE, expandThrows |-> FALSE,
   openTelegramLink |-> FALSE]
NoWebApp ==
  [telegram |-> TRUE, webapp |-> FALSE, expandThrows |-> FALSE,
   openTelegramLink |-> FALSE]
Bridges ==
  { [telegram |-> TRUE, webapp |-> TRUE, expandThrows |-> e,
     openTelegramLink |-> o] : e \in BOOLEAN, o \in BOOLEAN }
Windows == {NoTelegram, NoWebApp} \cup Bridges

\* SubscriptionsPlans.jsx:3-6, the codes of `plans`.
plans == << "PRO_MONTH", "PRO_QUARTER" >>
PlanCodes == { plans[i] : i \in 1..Len(plans) }

\* `window.Telegram?.WebApp`
OptionalWebApp(w) ==
  IF w.telegram /\ w.webapp THEN WebApp ELSE Undefined

\* JavaScript truthiness of the values met here.
Truthy(v) == v \notin {Undefined, Null, ""}

Call(by, input, fn, arg) == [by |-> by, input |-> input, fn |-> fn, arg |-> arg]

Idle == appPc \in {"unmounted", "mounted", "crashed"}

InitUIIdle ==
  /\ botUsername = [set |-> FALSE, val |-> ""]
  /\ win = NoTelegram
  /\ appPc = "unmounted"
  /\ tgw = Undefined
  /\ tg = Null
  /\ ret = [raised |-> FALSE, value |-> Undefined]
  /\ lastOp = [h |-> "none", input |-> ""]
  /\ calls = << >>
  /\ ops = 0

InitUI ==
  /\ botUsername \in BotUsernames
  /\ win \in Windows
  /\ appPc = "unmounted"
  /\ tgw = Undefined
  /\ tg = Null
  /\ ret = [raised |-> FALSE, value |-> Undefined]
  /\ lastOp = [h |-> "none", input |-> ""]
  /\ calls = << >>
  /\ ops = 0

\* The host page's Telegram script runs late: window.Telegram appears
\* between two tasks of the app.
LoadTelegramScript ==
  /\ Idle
  /\ ~ win.telegram
  /\ win' \in Bridges
  /\ UNCHANGED <<botUsername, appPc, tgw, tg, ret, lastOp, calls, ops>>
  /\ UNCHANGED <<filesVars, dbVars>>

(* ---- App.jsx ---- *)

\* First render: useState(null); the mount effect is scheduled.
AppRender ==
  /\ appPc = "unmounted"
  /\ tg' = Null
  /\ appPc' = "effect"
  /\ lastOp' = [h |-> "App.mount", input |-> ""]
  /\ UNCHANGED <<botUsername, win, tgw, ret, calls, ops>>
  /\ UNCHANGED <<filesVars, dbVars>>

\* Lines 34-35: const tgw = window.Telegram?.WebApp; if (tgw) ...
EffectRead ==
  /\ appPc = "effect"
  /\ tgw' = OptionalWebApp(win)
  /\ appPc' = IF Truthy(tgw') THEN "expand" ELSE "mounted"
  /\ UNCHANGED <<botUsername, win, tg, ret, lastOp, calls, ops>>
  /\ UNCHANGED <<filesVars, dbVars>>

\* Line 36: tgw.expand(); an exception leaves the effect, and React
\* unmounts the tree.
EffectExpand ==
  /\ appPc = "expand"
  /\ calls' = Append(calls, Call("App.mount", "", "expand", ""))
  /\ appPc' = IF win.expandThrows THEN "crashed" ELSE "ready"
  /\ UNCHANGED <<botUsername, win, tgw, tg, ret, lastOp, ops>>
  /\ UNCHANGED <<filesVars, dbVars>>

\* Line 37: tgw.ready();
EffectReady ==
  /\ appPc = "ready"
  /\ calls' = Append(calls, Call("App.mount", "", "ready", ""))
  /\ appPc' = "setTg"
  /\ UNCHANGED <<botUsername, win, tgw, tg, ret, lastOp, ops>>
  /\ UNCHANGED <<filesVars, dbVars>>

\* Line 38: setTg(tgw);
EffectSetTg ==
  /\ appPc = "setTg"
  /\ tg' = tgw
  /\ appPc' = "mounted"
  /\ UNCHANGED <<botUsername, win, tgw, ret, lastOp, calls, ops>>
  /\ UNCHANGED <<filesVars, dbVars>>

\* Line 44: import.meta.env.VITE_BOT_USERNAME || ""
UsernameOrEmpty(b) == IF b.set /\ b.val # "" THEN b.val ELSE ""

\* Line 49
PayUrl(name) == "https://t.me/" \o name \o "?start=BUY_PRO"

\* Line 50: tg?.openTelegramLink
OffersOpenTelegramLinkAlways(bridge, w) == bridge = WebApp
OffersOpenTelegramLinkLive(bridge, w) == w.webapp /\ w.openTelegramLink
OffersOpenTelegramLink(bridge, w) == bridge = WebApp /\ w.openTelegramLink

AlertApp == "Bot username missing. Set VITE_BOT_USERNAME in .env."

\* Lines 42-52: the Pro card's onClick.
OpenInChatPay ==
  /\ appPc = "mounted"
  /\ ops < MaxOps
  /\ ops' = ops + 1
  /\ lastOp' = [h |-> "App.openInChatPay", input |-> ""]
  /\ LET name == UsernameOrEmpty(botUsername)
         by == "App.openInChatPay"
     IN  calls' =
           IF name = "" THEN Append(calls, Call(by, "", "alert", AlertApp))
           ELSE IF OffersOpenTelegramLink(tg, win)
             THEN Append(calls, Call(by, "", "openTelegramLink", PayUrl(name)))
             ELSE Append(calls, Call(by, "", "window.open", PayUrl(name)))
  /\ UNCHANGED <<botUsername, win, appPc, tgw, tg, ret>>
  /\ UNCHANGED <<filesVars, dbVars>>

\* Line 71: the Free card's onClick, () => {}.
FreeClick ==
  /\ appPc = "mounted"
  /\ ops < MaxOps
  /\ ops' = ops + 1
  /\ lastOp' = [h |-> "App.freeClick", input |-> ""]
  /\ UNCHANGED <<botUsername, win, appPc, tgw, tg, ret, calls>>
  /\ UNCHANGED <<filesVars, dbVars>>

(* ---- components/SubscriptionsPlans.jsx ---- *)

AlertPlans == "VITE_BOT_USERNAME is not set. Add it to frontend-miniapp/.env"

\* Line 12: !botUsername
UsernameFalsy(b) == ~ b.set \/ b.val = ""

\* Line 16
PlanUrlNoCode(name, code) == "https://t.me/" \o name \o "?start=BUY_PRO"
PlanUrl(name, code) == "https://t.me/" \o name \o "?start=BUY_PRO_" \o code

\* Lines 11-18
OpenInChat(code) ==
  /\ Idle
  /\ ops < MaxOps
  /\ ops' = ops + 1
  /\ lastOp' = [h |-> "SubscriptionPlans.openInChat", input |-> code]
  /\ LET by == "SubscriptionPlans.openInChat"
     IN  calls' =
           IF UsernameFalsy(botUsername)
             THEN Append(calls, Call(by, code, "alert", AlertPlans))
             ELSE Append(calls, Call(by, code, "window.open",
                                     PlanUrl(botUsername.val, code)))
  /\ UNCHANGED <<botUsername, win, appPc, tgw, tg, ret>>
  /\ UNCHANGED <<filesVars, dbVars>>

(* ---- utils/telegram.js ---- *)

\* Line 4: try { tg.expand(); } catch(e) {} -- whether an exception thrown
\* inside the try block reaches the caller.
EscapesWithoutTry(threw) == threw
EscapesTry(threw) == FALSE

\* Lines 1-6
InitTelegramWebApp ==
  /\ Idle
  /\ ops < MaxOps
  /\ ops' = ops + 1
  /\ lastOp' = [h |-> "initTelegramWebApp", input |-> ""]
  /\ IF ~ win.telegram
       THEN /\ ret' = [raised |-> FALSE, value |-> Null]
            /\ calls' = calls
       ELSE LET bridge == IF win.webapp THEN WebApp ELSE Undefined
                \* undefined.expand() is a TypeError before any call is made
                called == bridge = WebApp
                threw == bridge # WebApp \/ win.expandThrows
            IN  /\ calls' = IF called
                              THEN Append(calls,
                                     Call("initTelegramWebApp", "", "expand", ""))
                              ELSE calls
                /\ ret' = IF EscapesTry(threw)
                            THEN [raised |-> TRUE, value |-> Undefined]
                            ELSE [raised |-> FALSE, value |-> bridge]
  /\ UNCHANGED <<botUsername, win, appPc, tgw, tg>>
  /\ UNCHANGED <<filesVars, dbVars>>

\* JSON values: null, booleans, integers, strings (sequences of
\* characters), arrays, objects (keys and values in insertion order).
JNull == [t |-> "null"]
JBool(b) == [t |-> "bool", b |-> b]
JNum(n) == [t |-> "num", n |-> n]
JStr(cs) == [t |-> "str", cs |-> cs]
JArr(items) == [t |-> "arr", items |-> items]
JObj(keys, vals) == [t |-> "obj", keys |-> keys, vals |-> vals]

Digit(d) ==
  CASE d = 0 -> "0" [] d = 1 -> "1" [] d = 2 -> "2" [] d = 3 -> "3"
    [] d = 4 -> "4" [] d = 5 -> "5" [] d = 6 -> "6" [] d = 7 -> "7"
    [] d = 8 -> "8" [] d = 9 -> "9"

RECURSIVE NatToStr(_)
NatToStr(n) == IF n < 10 THEN Digit(n) ELSE NatToStr(n \div 10) \o Digit(n % 10)

IntToStr(n) == IF n < 0 THEN "-" \o NatToStr(0 - n) ELSE NatToStr(n)

\* JSON.stringify's escapes of the characters met here.
EscapeChar(c) ==
  IF c = "\"" THEN "\\\"" ELSE IF c = "\\" THEN "\\\\" ELSE c

RECURSIVE QuoteChars(_)
QuoteChars(cs) ==
  IF cs = << >> THEN "" ELSE EscapeChar(Head(cs)) \o QuoteChars(Tail(cs))

Quote(cs) == "\"" \o QuoteChars(cs) \o "\""

\* JSON.stringify(v)
RECURSIVE JSONStringify(_)
RECURSIVE JoinItems(_)
RECURSIVE JoinMembers(_, _)
JoinItems(items) ==
  IF items = << >> THEN ""
  ELSE JSONStringify(Head(items))
         \o (IF Len(items) > 1 THEN "," ELSE "") \o JoinItems(Tail(items))
JoinMembers(keys, vals) ==
  IF keys = << >> THEN ""
  ELSE Quote(Head(keys)) \o ":" \o JSONStringify(Head(vals))
         \o (IF Len(keys) > 1 THEN "," ELSE "")
         \o JoinMembers(Tail(keys), Tail(vals))
JSONStringify(v) ==
  CASE v.t = "null" -> "null"
    [] v.t = "bool" -> (IF v.b THEN "true" ELSE "false")
    [] v.t = "num" -> IntToStr(v.n)
    [] v.t = "str" -> Quote(v.cs)
    [] v.t = "arr" -> "[" \o JoinItems(v.items) \o "]"
    [] v.t = "obj" -> "{" \o JoinMembers(v.keys, v.vals) \o "}"

\* The payloads handed to sendDataToBot, by name.
DataNames ==
  { "null", "false", "number", "negative", "string", "quoted", "array", "object" }

DataValue(name) ==
  CASE name = "null" -> JNull
    [] name = "false" -> JBool(FALSE)
    [] name = "number" -> JNum(300)
    [] name = "negative" -> JNum(-7)
    [] name = "string" -> JStr(<<"h", "i">>)
    [] name = "quoted" -> JStr(<<"a", "\"", "\\", "b">>)
    [] name = "array" -> JArr(<<JNum(1), JStr(<<"x">>), JNull>>)
    [] name = "object" ->
         JObj(<< <<"p", "l", "a", "n">>, <<"n">> >>,
              << JStr(<<"P", "R", "O">>), JArr(<<JBool(TRUE), JNum(90)>>) >>)

WarnNoWebApp == "Telegram WebApp not available."

\* What sendDataToBot hands to tg.sendData.
PayloadRaw(name) == name
Payload(name) == JSONStringify(DataValue(name))

\* Lines 8-15
SendDataToBot(name) ==
  /\ Idle
  /\ ops < MaxOps
  /\ ops' = ops + 1
  /\ lastOp' = [h |-> "sendDataToBot", input |-> name]
  /\ LET bridge == OptionalWebApp(win)
         by == "sendDataToBot"
     IN  calls' =
           IF ~ Truthy(bridge)
             THEN Append(calls, Call(by, name, "console.warn", WarnNoWebApp))
             ELSE Append(calls, Call(by, name, "sendData", Payload(name)))
  /\ UNCHANGED <<botUsername, win, appPc, tgw, tg, ret>>
  /\ UNCHANGED <<filesVars, dbVars>>

NextUI ==
  \/ LoadTelegramScript
  \/ AppRender
  \/ EffectRead
  \/ EffectExpand
  \/ EffectReady
  \/ EffectSetTg
  \/ OpenInChatPay
  \/ FreeClick
  \/ \E code \in PlanCodes : OpenInChat(code)
  \/ InitTelegramWebApp
  \/ \E name \in DataNames : SendDataToBot(name)

(***************************************************************************)
(* Specifications: one per component, the other components at rest.        *)
(***************************************************************************)

InitSpecFiles == InitFiles /\ InitDB /\ InitUIIdle
SpecFiles == InitSpecFiles /\ [][NextFiles]_vars

InitSpecDB == InitFilesIdle /\ InitDB /\ InitUIIdle
SpecDB == InitSpecDB /\ [][NextDB]_vars
SpecUnique == InitSpecDB /\ [][NextUnique]_vars
SpecRefs == InitSpecDB /\ [][NextRefs]_vars

InitSpecUI == InitFilesIdle /\ InitDB /\ InitUI
SpecUI == InitSpecUI /\ [][NextUI]_vars

(***************************************************************************)
(* C1                                                                      *)
(***************************************************************************)

\* Number of times line l occurs in the output.
Occurrences(l) == Cardinality({ k \in 1..Len(out) : out[k] = l })

\* Position of line l in the output (0 when it does not occur).
PosOf(l) == IF \E k \in 1..Len(out) : out[k] = l
              THEN CHOOSE k \in 1..Len(out) : out[k] = l
              ELSE 0

\* C1: once check_files.sh has exited, it exited 0 with the success line iff
\* all 16 required paths exist; otherwise it exited 2 and listed exactly the
\* absent paths, each once, in the order of the required list, and no path
\* that is present.
C1_ExitAndListing ==
  pc = "exited" =>
    /\ (status = ExitOk /\ out = <<MsgAllPresent>>) <=> (fs = RequiredSet)
    /\ fs # RequiredSet =>
         /\ status = ExitMissing
         /\ out[1] = MsgMissing
         /\ Len(out) = 1 + Cardinality(RequiredSet \ fs)
         /\ \A i \in 1..Len(required) :
              Occurrences(MissingLine(required[i])) =
                (IF required[i] \in fs THEN 0 ELSE 1)
         /\ \A i, j \in 1..Len(required) :
              (i < j /\ required[i] \notin fs /\ required[j] \notin fs)
                => PosOf(MissingLine(required[i])) < PosOf(MissingLine(required[j]))

\* The script exited 2 with some (not all) files missing, among them the
\* first and the last of the list.
C1_Witness ==
  /\ pc = "exited"
  /\ status = ExitMissing
  /\ required[1] \notin fs
  /\ required[16] \notin fs
  /\ required[2] \in fs
  /\ Len(out) = 4

(***************************************************************************)
(* The mini-app's claims.  A step of handler h on argument x is a step     *)
(* that counts one more handler and leaves [h, x] in lastOp.               *)
(***************************************************************************)

StepOf(h, x) == ops' = ops + 1 /\ lastOp' = [h |-> h, input |-> x]

\* The step made exactly one call to the host, fn(arg), after those made before.
OneCall(fn, arg) ==
  /\ Len(calls') = Len(calls) + 1
  /\ SubSeq(calls', 1, Len(calls)) = calls
  /\ calls'[Len(calls')].fn = fn
  /\ calls'[Len(calls')].arg = arg

NoCall == calls' = calls

UsernameMissing == ~ botUsername.set \/ botUsername.val = ""

CallsBy(h) == SelectSeq(calls, LAMBDA c : c.by = h)

C4_Step ==
  \A code \in PlanCodes :
    StepOf("SubscriptionPlans.openInChat", code) =>
      IF UsernameMissing
        THEN OneCall("alert", AlertPlans)
        ELSE OneCall("window.open",
               "https://t.me/" \o botUsername.val \o "?start=BUY_PRO_" \o code)

C4_Distinct ==
  \A i, j \in 1..Len(calls) :
    ( /\ calls[i].by = "SubscriptionPlans.openInChat"
      /\ calls[j].by = "SubscriptionPlans.openInChat"
      /\ calls[i].fn = "window.open"
      /\ calls[j].fn = "window.open"
      /\ calls[i].input # calls[j].input )
    => calls[i].arg # calls[j].arg

\* C4: SubscriptionPlans.openInChat(code), for each plan code: with
\* VITE_BOT_USERNAME unset or empty it shows the alert and opens no window;
\* with it set it opens exactly one window, on
\* https://t.me/<botUsername>?start=BUY_PRO_<code>; the links opened for
\* distinct plan codes are distinct.
C4_OpenInChat == [][C4_Step]_vars /\ []C4_Distinct

\* Both plans were clicked with the username set: two windows were opened.
C4_Witness ==
  /\ botUsername.set /\ botUsername.val # ""
  /\ Len(calls) = 2
  /\ calls[1].fn = "window.open" /\ calls[1].input = "PRO_MONTH"
  /\ calls[2].fn = "window.open" /\ calls[2].input = "PRO_QUARTER"

\* The texts JSON.stringify gives for the payloads.
ExpectedJson(name) ==
  CASE name = "null" -> "null"
    [] name = "false" -> "false"
    [] name = "number" -> "300"
    [] name = "negative" -> "-7"
    [] name = "string" -> "\"hi\""
    [] name = "quoted" -> "\"a\\\"\\\\b\""
    [] name = "array" -> "[1,\"x\",null]"
    [] name = "object" -> "{\"plan\":\"PRO\",\"n\":[true,90]}"

C5_Step ==
  \A name \in DataNames :
    StepOf("sendDataToBot", name) =>
      IF ~ (win.telegram /\ win.webapp)
        THEN OneCall("console.warn", WarnNoWebApp)
        ELSE OneCall("sendData", ExpectedJson(name))

\* C5: sendDataToBot(data): with the bridge unavailable it only logs a
\* warning and sends nothing; with the bridge available it calls sendData
\* exactly once, with the JSON text of data, and makes no other call.
C5_SendDataToBot == [][C5_Step]_vars

\* An object was sent through an available bridge.
C5_Witness ==
  /\ win.telegram /\ win.webapp
  /\ lastOp = [h |-> "sendDataToBot", input |-> "object"]
  /\ calls # << >>
  /\ calls[Len(calls)].fn = "sendData"
  /\ calls[Len(calls)].arg = "{\"plan\":\"PRO\",\"n\":[true,90]}"

\* C6 as stated: initTelegramWebApp never raises; it returns null when
\* window.Telegram is absent, and otherwise returns the WebApp bridge object
\* after attempting expand once, also when expand throws or when
\* window.Telegram has no usable WebApp.
C6_Step_AsStated ==
  StepOf("initTelegramWebApp", "") =>
    /\ ~ ret'.raised
    /\ IF ~ win.telegram
         THEN ret'.value = Null /\ NoCall
         ELSE /\ ret'.value = WebApp
              /\ Len(CallsBy("initTelegramWebApp")') <=
                   Len(CallsBy("initTelegramWebApp")) + 1

C6_AsStated == [][C6_Step_AsStated]_vars

C6_Step ==
  StepOf("initTelegramWebApp", "") =>
    /\ ~ ret'.raised
    /\ IF ~ win.telegram THEN ret'.value = Null /\ NoCall
       ELSE IF ~ win.webapp THEN ret'.value = Undefined /\ NoCall
       ELSE ret'.value = WebApp /\ OneCall("expand", "")

\* C6, amended: initTelegramWebApp never raises; it returns null when
\* window.Telegram is absent; when window.Telegram has a WebApp it calls
\* expand once and returns that WebApp, also when expand throws; when
\* window.Telegram has no WebApp it makes no call and returns undefined.
C6_InitTelegramWebApp == [][C6_Step]_vars

\* initTelegramWebApp has run against a window.Telegram with no WebApp.
C6_Witness ==
  /\ lastOp.h = "initTelegramWebApp"
  /\ win = NoWebApp
  /\ ret = [raised |-> FALSE, value |-> Undefined]

\* The bridge was captured at mount: the effect saw it and ran to its end.
CapturedAtMount == appPc = "mounted" /\ tgw = WebApp

C9_Step ==
  /\ StepOf("App.openInChatPay", "") =>
       IF UsernameMissing
         THEN OneCall("alert", AlertApp)
         ELSE OneCall(
                IF CapturedAtMount /\ win.openTelegramLink
                  THEN "openTelegramLink" ELSE "window.open",
                "https://t.me/" \o botUsername.val \o "?start=BUY_PRO")
  /\ StepOf("App.freeClick", "") => NoCall

\* C9: each click of the Pro card, with VITE_BOT_USERNAME unset or empty,
\* alerts and opens nothing; otherwise it opens
\* https://t.me/<botUsername>?start=BUY_PRO through exactly one channel:
\* the bridge's openTelegramLink when the bridge was captured at mount and
\* offers it, else window.open.  A click of the Free card opens nothing.
C9_OpenInChatPay == [][C9_Step]_vars

\* A Pro click went through the bridge captured at mount.
C9_Witness ==
  /\ lastOp.h = "App.openInChatPay"
  /\ tg = WebApp
  /\ calls[Len(calls)].fn = "openTelegramLink"
  /\ calls[Len(calls)].arg = "https://t.me/daaskobot?start=BUY_PRO"

MountCalls == [k \in 1..Len(CallsBy("App.mount")) |-> CallsBy("App.mount")[k].fn]

MountOver == appPc \in {"mounted", "crashed"}

C10_Mount ==
  /\ tg = WebApp => MountCalls = <<"expand", "ready">>
  /\ (appPc = "mounted" /\ tgw = WebApp) =>
       MountCalls = <<"expand", "ready">> /\ tg = WebApp
  /\ appPc = "crashed" =>
       tgw = WebApp /\ MountCalls = <<"expand">> /\ tg = Null
  /\ (appPc = "mounted" /\ tgw # WebApp) => MountCalls = << >> /\ tg = Null
  /\ Len(MountCalls) <= 2

C10_Step ==
  (StepOf("App.openInChatPay", "") /\ tgw # WebApp) =>
    /\ Len(calls') = Len(calls) + 1
    /\ calls'[Len(calls')].fn # "openTelegramLink"
    /\ ~ UsernameMissing => calls'[Len(calls')].fn = "window.open"

Rejected(code) == outcome' = code /\ UNCHANGED tables

\* The tenant of the chat a row's chat_id points to is t.
ChatOwnedBy(r, t) == \E c \in chats : c.id = r.chat_id /\ c.tenant_id = t

\* C2: no row owned by one tenant references a row owned by another: every
\* invite_links row and every join_events row has the tenant_id of the chat
\* its chat_id points to, and every join_events row with an invite_link_id
\* has the tenant_id and the chat_id of that invite link.  (Stated for the
\* rows that have an owner; a row with a null tenant_id that references an
\* owned row breaks the letter of the claim as well.)
C2_TenantIsolation ==
  /\ \A l \in invite_links : \A c \in chats :
       (l.chat_id = c.id /\ l.tenant_id # NULL /\ c.tenant_id # NULL)
         => l.tenant_id = c.tenant_id
  /\ \A j \in join_events : \A c \in chats :
       (j.chat_id = c.id /\ j.tenant_id # NULL /\ c.tenant_id # NULL)
         => j.tenant_id = c.tenant_id
  /\ \A j \in join_events : \A l \in invite_links :
       (j.invite_link_id = l.id /\ j.tenant_id # NULL /\ l.tenant_id # NULL)
         => j.tenant_id = l.tenant_id /\ j.chat_id = l.chat_id

C3_Unique ==
  /\ \A u1, u2 \in users :
       (u1 # u2 /\ u1.tenant_id # NULL /\ u1.tenant_id = u2.tenant_id)
         => u1.tg_user_id # u2.tg_user_id
  /\ \A c1, c2 \in chats :
       (c1 # c2 /\ c1.tenant_id # NULL /\ c1.tenant_id = c2.tenant_id)
         => c1.tg_chat_id # c2.tg_chat_id

C3_Step ==
  \A t \in TenantIds, g \in TgIds :
    /\ InsertUsers(t, g) =>
         IF \E u \in users : u.tenant_id = t /\ u.tg_user_id = g
           THEN Rejected(UniqueViolation)
           ELSE (t \in tenants /\ RowCount < MaxRows) =>
                  /\ outcome' = Success
                  /\ \E u \in users' \ users : u.tenant_id = t /\ u.tg_user_id = g
    /\ InsertChats(t, g) =>
         IF \E c \in chats : c.tenant_id = t /\ c.tg_chat_id = g
           THEN Rejected(UniqueViolation)
           ELSE (t \in tenants /\ RowCount < MaxRows) =>
                  /\ outcome' = Success
                  /\ \E c \in chats' \ chats : c.tenant_id = t /\ c.tg_chat_id = g

\* C3: no two users rows of one tenant have the same tg_user_id and no two
\* chats rows of one tenant have the same tg_chat_id; an insert that would
\* make such a pair is rejected and leaves the tables unchanged; an insert
\* for an existing tenant that makes no such pair is accepted, whatever the
\* rows of other tenants hold.
C3_UniquePerTenant == []C3_Unique /\ [][C3_Step]_vars

\* Two tenants hold the same tg_user_id, and a duplicate has just been
\* rejected.
C3_Witness ==
  /\ outcome = UniqueViolation
  /\ \E u1, u2 \in users :
       /\ u1.tenant_id # NULL /\ u2.tenant_id # NULL
       /\ u1.tenant_id # u2.tenant_id
       /\ u1.tg_user_id = u2.tg_user_id

\* Row r goes when tenant t is deleted: it is t's, or its chat is.
GoesWithTenant(r, t) == r.tenant_id = t \/ ChatOwnedBy(r, t)

C7_Step ==
  \A t \in tenants :
    DeleteTenants(t) =>
      /\ outcome' = Success
      /\ t \notin tenants'
      /\ \A r \in users' \cup chats' \cup invite_links' \cup join_events'
                    \cup subscriptions' \cup payments' : r.tenant_id # t
      /\ \A r \in users \cup chats \cup invite_links \cup join_events
                    \cup subscriptions \cup payments :
           r.tenant_id \notin {t, NULL} =>
             r \in users' \cup chats' \cup invite_links' \cup join_events'
                     \cup subscriptions' \cup payments'

\* C7: deleting a tenant always succeeds and cascades: afterwards no row of
\* any table has the deleted tenant's tenant_id, and the rows of every other
\* tenant are unchanged.
C7_DeleteTenantCascades == [][C7_Step]_vars

C8_NoDangling ==
  \A j \in join_events :
    j.invite_link_id # NULL => j.invite_link_id \in Ids(invite_links)

C8_Step ==
  /\ \A l \in invite_links :
       ( /\ DeleteInviteLinks(l)
         /\ \E j \in join_events : j.invite_link_id = l.id )
       => Rejected(FkDeleteViolation)
  /\ \A c \in chats :
       ( /\ DeleteChats(c)
         /\ \E l \in invite_links, j \in join_events :
              /\ l.chat_id = c.id
              /\ j.invite_link_id = l.id
              /\ j.chat_id # c.id )
       => Rejected(FkDeleteViolation)
  /\ \A t \in tenants :
       ( /\ DeleteTenants(t)
         /\ \E l \in invite_links, j \in join_events :
              /\ GoesWithTenant(l, t)
              /\ j.invite_link_id = l.id
              /\ ~ GoesWithTenant(j, t) )
       => Rejected(FkDeleteViolation)

\* C8: every join_events row with a non-null invite_link_id points to an
\* existing invite_links row; a delete of an invite link, direct or by
\* cascade from its chat or tenant, that would leave a join_events row
\* pointing to it is rejected as a whole and leaves every table unchanged.
C8_JoinAttribution == []C8_NoDangling /\ [][C8_Step]_vars

\* The delete of a chat was rejected: its invite link is referenced by a
\* join event of another chat.
C8_Witness ==
  /\ outcome = FkDeleteViolation
  /\ \E c \in chats, l \in invite_links, j \in join_events :
       /\ l.chat_id = c.id
       /\ j.invite_link_id = l.id
       /\ j.chat_id # c.id

====
